---- MODULE Spec2Model ----
(***************************************************************************)
(* Model of cloud_app.py (Macro Radar): one refresh cycle of               *)
(* get_market_data followed by the module-level render block, and the      *)
(* signal computation calculate_signal.                                    *)
(*                                                                         *)
(* A pandas cell is an optional number: NaN is the empty sequence and a    *)
(* number v is the one-element sequence <<v>>.  Numbers are integers; the  *)
(* inputs are chosen so that every float operation of the code (the        *)
(* division by 1000, the rolling means) is exact on them.  A frame is a    *)
(* sequence of rows, each row a record with its index value d (a calendar  *)
(* day number) and one field per column.                                   *)
(***************************************************************************)
EXTENDS Integers, Sequences, FiniteSets, TLC

\* ---------------------------------------------------------------- bounds
\* Days of the requested window in the cycle model.
MaxDate == 3
\* Longest table given to calculate_signal in the signal model.
MaxRows == 31

\* ------------------------------------------------------ program constants
\* rolling(window=20), lines 94-95.
Window == 20
\* rolling(window=30), line 96.
CorrWindow == 30
\* / 1000, line 34.
Scale == 1000

\* ------------------------------------------------------------------ cells
NaN == << >>
F(v) == <<v>>
IsNaN(x) == x = NaN
Num(x) == x[1]

\* float subtraction: NaN propagates.
FSub(a, b) == IF IsNaN(a) \/ IsNaN(b) THEN NaN ELSE F(Num(a) - Num(b))
\* ----------------------------------------------------------------- frames
Dates == 1..MaxDate

RECURSIVE SortedSeq(_)
\* The elements of a finite set of integers, ascending.
SortedSeq(S) ==
  IF S = {} THEN << >>
  ELSE LET m == CHOOSE x \in S : \A y \in S : x <= y
       IN <<m>> \o SortedSeq(S \ {m})

Index(rows) == {rows[i].d : i \in 1..Len(rows)}

\* DataFrame.ffill(): every NaN cell of column c takes the most recent
\* non-NaN value above it in the same column, if there is one.
FFillCell(rows, i, c) ==
  LET prior == {j \in 1..i : ~IsNaN(rows[j][c])}
  IN IF prior = {} THEN NaN
     ELSE rows[CHOOSE j \in prior : \A k \in prior : k <= j][c]

FFill(rows, cols) ==
  [i \in 1..Len(rows) |->
     [f \in DOMAIN rows[i] |->
        IF f \in cols THEN FFillCell(rows, i, f) ELSE rows[i][f]]]

NoNaN(row, cols) == \A c \in cols : ~IsNaN(row[c])

\* DataFrame.dropna(): how='any', a row with a NaN in any column is dropped.
DropNa(rows, cols) ==
  LET keep(r) == NoNaN(r, cols) IN SelectSeq(rows, keep)

\* A frame: the timezone of its index, its column names and its rows.
Frame(tz, cols, rows) == [tz |-> tz, cols |-> cols, rows |-> rows]
EmptyFrame == Frame("naive", {}, << >>)

\* pd.to_datetime(index) and tz_localize(None) when the index carries a
\* timezone (lines 37-38 and 51-52): the index becomes timezone-naive, the
\* calendar day of every row is kept.
StripTz(fr) == [fr EXCEPT !.tz = "naive"]

\* ------------------------------------------------- 1. liquidity (FRED)
FredCols == {"WALCL", "WTREGEN", "RRPONTSYD"}

\* (WALCL - WTREGEN - RRPONTSYD) / 1000 of one row (line 34).
NetLiquidity(r) ==
  F((Num(r.WALCL) - Num(r.WTREGEN) - Num(r.RRPONTSYD)) \div Scale)

AddNetLiquidity(rows) ==
  [i \in 1..Len(rows) |->
     [f \in DOMAIN rows[i] \cup {"Net_Liquidity"} |->
        IF f = "Net_Liquidity" THEN NetLiquidity(rows[i]) ELSE rows[i][f]]]

\* A slip of line 33: the forward fill left out.
FillAndDropBad(rows) == DropNa(rows, FredCols)

\* fred_data.ffill().dropna() (line 33).
FillAndDrop(rows) == DropNa(FFill(rows, FredCols), FredCols)

\* Lines 33-38 applied to the DataReader response.
DeriveLiquidity(raw) ==
  StripTz(Frame(raw.tz, raw.cols \cup {"Net_Liquidity"},
                AddNetLiquidity(FillAndDrop(raw.rows))))

\* -------------------------------------------- 2. daily price (yfinance)
\* Lines 47-48: the Close column of the response.  A multi-level response
\* gives a frame whose single column is named after the instrument; a flat
\* one keeps the name Close.  ok is FALSE when the lookup raises KeyError.
ExtractClose(resp) ==
  IF "Close" \notin resp.cols THEN [ok |-> FALSE, fr |-> EmptyFrame]
  ELSE [ok |-> TRUE,
        fr |-> Frame(resp.tz,
                     IF resp.shape = "multi" THEN {"BTC-USD"} ELSE {"Close"},
                     [i \in 1..Len(resp.rows) |->
                        [d |-> resp.rows[i].d,
                         v |-> resp.rows[i].Close]])]

\* Lines 55-57: rename Close to BTC_Price, then overwrite the column labels
\* when BTC_Price is still not among them.  The rows carry the single
\* column's cells under the final name.
NameColumn(fr) ==
  LET renamed == {IF c = "Close" THEN "BTC_Price" ELSE c : c \in fr.cols}
      final   == IF "BTC_Price" \notin renamed THEN {"BTC_Price"} ELSE renamed
  IN Frame(fr.tz, final,
           [i \in 1..Len(fr.rows) |->
              [d |-> fr.rows[i].d, BTC_Price |-> fr.rows[i].v]])

\* Lines 46-57 applied to the yf.download response.
NormalizePrice(resp) == NameColumn(StripTz(ExtractClose(resp).fr))

\* ------------------------------------------------ 3. live quote (1m bars)
\* float(live_data['Close'].iloc[-1]) (lines 69-72), either column shape.
LastClose(live) == live.closes[Len(live.closes)]

\* float(btc_df['BTC_Price'].iloc[-1]) (lines 75 and 77).
LastDaily(fr) == fr.rows[Len(fr.rows)].BTC_Price

\* ------------------------------------------------------------- 4. merge
CellAt(rows, day, c) ==
  IF day \in Index(rows)
    THEN rows[CHOOSE i \in 1..Len(rows) : rows[i].d = day][c]
    ELSE NaN

\* df_liq.join(btc_df, how='outer'): one row per day of the union of both
\* indexes, ascending, NaN where a side has no row for the day.
OuterJoin(liq, btc) ==
  LET days == SortedSeq(Index(liq) \cup Index(btc))
  IN [i \in 1..Len(days) |->
        [d |-> days[i],
         Net_Liquidity |-> CellAt(liq, days[i], "Net_Liquidity"),
         BTC_Price |-> CellAt(btc, days[i], "BTC_Price")]]

JoinCols == {"Net_Liquidity", "BTC_Price"}

\* Two slips of line 83: the forward fill left out, the dropna left out.
MergeNoFill(liq, btc) == DropNa(OuterJoin(liq, btc), JoinCols)
MergeNoDrop(liq, btc) == FFill(OuterJoin(liq, btc), JoinCols)

\* df_liq.join(btc_df, how='outer').ffill().dropna() (lines 81-83).
Merge(liq, btc) == DropNa(FFill(OuterJoin(liq, btc), JoinCols), JoinCols)

\* ---------------------------------------------------- calculate_signal
RECURSIVE SumProd(_, _, _, _, _)
\* Sum over rows lo..hi of the product of columns a and b; column "one" is
\* the constant 1, so SumProd(rows, lo, hi, a, "one") is a plain sum.
SumProd(rows, lo, hi, a, b) ==
  IF lo > hi THEN 0
  ELSE (IF a = "one" THEN 1 ELSE Num(rows[hi][a]))
       * (IF b = "one" THEN 1 ELSE Num(rows[hi][b]))
       + SumProd(rows, lo, hi - 1, a, b)

\* A rolling window of w rows ending at row i is defined when it holds w
\* rows, none of them NaN (min_periods defaults to the window).
WindowDefined(rows, i, w, cols) ==
  /\ i >= w
  /\ \A j \in (i - w + 1)..i : NoNaN(rows[j], cols)

\* A slip of lines 94-95: min_periods=1, the mean of the rows at hand.
RollingMeanBad(rows, i, c, w) ==
  IF i >= 1 /\ NoNaN(rows[i], {c})
    THEN LET lo == IF i >= w THEN i - w + 1 ELSE 1
         IN <<SumProd(rows, lo, i, c, "one"), i - lo + 1>>
    ELSE NaN

\* Series.rolling(window=w).mean() at row i: the fraction <<sum, w>>, or
\* NaN when the window is not defined.
RollingMean(rows, i, c, w) ==
  IF WindowDefined(rows, i, w, {c})
    THEN <<SumProd(rows, i - w + 1, i, c, "one"), w>>
    ELSE NaN

\* Series.rolling(window=w).corr(other) at row i: Pearson's coefficient is
\* cov / sqrt(vx * vy) for the triple <<cov, vx, vy>> (each scaled by w*w),
\* NaN when the window is not defined or a variance is zero.
RollingCorr(rows, i, a, b, w) ==
  IF ~WindowDefined(rows, i, w, {a, b}) THEN NaN
  ELSE LET lo  == i - w + 1
           sx  == SumProd(rows, lo, i, a, "one")
           sy  == SumProd(rows, lo, i, b, "one")
           cov == w * SumProd(rows, lo, i, a, b) - sx * sy
           vx  == w * SumProd(rows, lo, i, a, a) - sx * sx
           vy  == w * SumProd(rows, lo, i, b, b) - sy * sy
       IN IF vx = 0 \/ vy = 0 THEN NaN ELSE <<cov, vx, vy>>

\* A slip of lines 99-100: >= for >.
GtMeanBad(v, m) ==
  IF IsNaN(v) \/ IsNaN(m) THEN FALSE ELSE Num(v) * m[2] >= m[1]

\* value > mean for a mean held as the fraction <<sum, count>>; False when
\* either side is NaN.
GtMean(v, m) ==
  IF IsNaN(v) \/ IsNaN(m) THEN FALSE ELSE Num(v) * m[2] > m[1]

\* get_status (lines 98-104).  The four signal strings of the code are
\* named STRONG_LONG, DIVERGENCE_RISK, BUY_OPPORTUNITY and NEUTRAL.
get_status(row) ==
  LET liq_trend_up == GtMean(row.Net_Liquidity, row.Liq_SMA_20)
      btc_trend_up == GtMean(row.BTC_Price, row.BTC_SMA_20)
  IN IF liq_trend_up /\ btc_trend_up THEN "STRONG_LONG"
     ELSE IF ~liq_trend_up /\ btc_trend_up THEN "DIVERGENCE_RISK"
     ELSE IF liq_trend_up /\ ~btc_trend_up THEN "BUY_OPPORTUNITY"
     ELSE "NEUTRAL"

\* calculate_signal (lines 93-107) on the rows of the aligned table.
calculate_signal(rows) ==
  LET withStats ==
        [i \in 1..Len(rows) |->
           [d |-> rows[i].d,
            Net_Liquidity |-> rows[i].Net_Liquidity,
            BTC_Price |-> rows[i].BTC_Price,
            Liq_SMA_20 |-> RollingMean(rows, i, "Net_Liquidity", Window),
            BTC_SMA_20 |-> RollingMean(rows, i, "BTC_Price", Window),
            Correlation |->
              RollingCorr(rows, i, "Net_Liquidity", "BTC_Price", CorrWindow)]]
  IN [i \in 1..Len(rows) |->
        [f \in DOMAIN withStats[i] \cup {"Signal"} |->
           IF f = "Signal" THEN get_status(withStats[i])
           ELSE withStats[i][f]]]

\* ------------------------------------------------------- upstream data
Tz == {"naive", "UTC"}

\* The rows of a response: one row per day of D, ascending, with the cells
\* f gives for the day.
RowsOf(D, f) ==
  LET days == SortedSeq(D)
  IN [i \in 1..Len(days) |->
        [c \in DOMAIN f[days[i]] \cup {"d"} |->
           IF c = "d" THEN days[i] ELSE f[days[i]][c]]]

\* What web.DataReader may return (line 32): any days of the window, each
\* component published or not on each day.
FredCells ==
  [WALCL : {NaN, F(5000), F(6000)},
   WTREGEN : {NaN, F(1000)},
   RRPONTSYD : {NaN, F(1000)}]

FredResponse(tz, D, f) == Frame(tz, FredCols, RowsOf(D, f))

\* What yf.download(interval="1d") may return (line 46): daily closes, under
\* flat or multi-level columns; an empty response may also carry no columns.
PriceCells == [Close : {NaN, F(1), F(2)}]

PriceResponse(tz, sh, D, f) ==
  [tz |-> tz, shape |-> sh, cols |-> {"Close"}, rows |-> RowsOf(D, f)]

NoColumns == [tz |-> "naive", shape |-> "flat", cols |-> {}, rows |-> << >>]

\* What yf.download(period='1d', interval='1m') may return (line 66): the
\* closes of the minute bars, possibly none.
LiveResponses ==
  {[shape |-> sh, closes |-> cl]
     : sh \in {"flat", "multi"}, cl \in {<< >>, <<F(3)>>, <<F(1), F(3)>>}}

\* ------------------------------------------------------------ the state
VARIABLES
  pc,             \* position in the cycle
  requests,       \* upstream requests issued so far in the cycle
  errors,         \* st.error messages shown so far in the cycle
  fred_raw,       \* the DataReader response as received (line 32)
  fred_data,      \* local fred_data after line 38
  btc_df,         \* local btc_df after line 57
  current_price,  \* local current_price
  df,             \* local df after line 83; the table given to calculate_signal
  ret,            \* what get_market_data returned, or that it raised
  view            \* what the render block showed

vars == <<pc, requests, errors, fred_raw, fred_data, btc_df, current_price,
          df, ret, view>>

\* The outcome of get_market_data: not yet returned, a returned pair (each
\* half None or a value), or an exception leaving the function.
Returned(df_none, table, price_none, price) ==
  [kind |-> "returned", df_none |-> df_none, df |-> table,
   price_none |-> price_none, price |-> price]
NoReturn ==
  [kind |-> "pending", df_none |-> TRUE, df |-> EmptyFrame,
   price_none |-> TRUE, price |-> NaN]
NoneNone == Returned(TRUE, EmptyFrame, TRUE, NaN)
Raised ==
  [kind |-> "raised", df_none |-> TRUE, df |-> EmptyFrame,
   price_none |-> TRUE, price |-> NaN]
\* One upstream request and how it ended: it raised, it answered with no
\* rows, or it answered with rows.
Req(source, result) == [source |-> source, result |-> result]
ResultOf(rows) == IF rows = << >> THEN "empty" ELSE "rows"
NoView == [kind |-> "pending", table |-> << >>, delta |-> NaN]

Init ==
  /\ pc = "start"
  /\ requests = << >>
  /\ errors = << >>
  /\ fred_raw = EmptyFrame
  /\ fred_data = EmptyFrame
  /\ btc_df = EmptyFrame
  /\ current_price = NaN
  /\ df = EmptyFrame
  /\ ret = NoReturn
  /\ view = NoView

\* A slip of lines 40-41, 60-61 and 85-86: the return left out, the cycle
\* going on to its next step after st.error.
FailWithBad(source) ==
  /\ errors' = Append(errors, source)
  /\ pc' = IF source = "fred" THEN "price"
           ELSE IF source = "btc" THEN "live" ELSE "merged"
  /\ UNCHANGED <<fred_raw, fred_data, btc_df, current_price, df, ret, view>>

\* return None, None after st.error (lines 40-41, 60-61, 85-86).
FailWith(source) ==
  /\ errors' = Append(errors, source)
  /\ ret' = NoneNone
  /\ pc' = "returned"
  /\ fred_raw' = fred_raw
  /\ fred_data' = EmptyFrame
  /\ btc_df' = EmptyFrame
  /\ current_price' = NaN
  /\ df' = EmptyFrame
  /\ view' = view

\* Lines 29-38, the request answered.
FetchLiquidity ==
  /\ pc = "start"
  /\ \E tz \in Tz, D \in SUBSET Dates :
       \E f \in [D -> FredCells] :
         LET raw == FredResponse(tz, D, f)
         IN /\ requests' = Append(requests, Req("fred", ResultOf(raw.rows)))
            /\ fred_data' = DeriveLiquidity(raw)
  /\ pc' = "price"
  /\ UNCHANGED <<errors, fred_raw, btc_df, current_price, df, ret, view>>

\* Lines 29-41, the request raising.
FetchLiquidityFails ==
  /\ pc = "start"
  /\ requests' = Append(requests, Req("fred", "raised"))
  /\ FailWith("fred")

\* Lines 44-57, the request answered with a Close column.
FetchPrice ==
  /\ pc = "price"
  /\ \E tz \in Tz, sh \in {"flat", "multi"}, D \in SUBSET Dates :
       \E f \in [D -> PriceCells] :
         LET resp == PriceResponse(tz, sh, D, f)
         IN /\ ExtractClose(resp).ok
            /\ requests' = Append(requests, Req("daily", ResultOf(resp.rows)))
            /\ btc_df' = NormalizePrice(resp)
  /\ pc' = "live"
  /\ UNCHANGED <<errors, fred_raw, fred_data, current_price, df, ret, view>>

\* Lines 44-61, the request raising or the response lacking Close.
FetchPriceFails ==
  /\ pc = "price"
  /\ \/ requests' = Append(requests, Req("daily", "raised"))
     \/ /\ ~ExtractClose(NoColumns).ok
        /\ requests' = Append(requests, Req("daily", ResultOf(NoColumns.rows)))
  /\ FailWith("btc")

\* Lines 64-72, a non-empty live response.
FetchLive ==
  /\ pc = "live"
  /\ requests' = Append(requests, Req("live", "rows"))
  /\ \E live \in LiveResponses :
       /\ live.closes # << >>
       /\ current_price' = LastClose(live)
  /\ pc' = "merge"
  /\ UNCHANGED <<errors, fred_raw, fred_data, btc_df, df, ret, view>>

\* The live request raised, or its response is empty.
LiveUnavailable ==
  \/ requests' = Append(requests, Req("live", "raised"))
  \/ \E live \in LiveResponses :
       /\ live.closes = << >>
       /\ requests' = Append(requests, Req("live", "empty"))

\* Lines 73-77 with a non-empty daily series: the last daily close.
LiveFallback ==
  /\ pc = "live"
  /\ LiveUnavailable
  /\ btc_df.rows # << >>
  /\ current_price' = LastDaily(btc_df)
  /\ pc' = "merge"
  /\ UNCHANGED <<errors, fred_raw, fred_data, btc_df, df, ret, view>>

\* Lines 73-77 with an empty daily series: iloc[-1] raises IndexError, at
\* line 75 inside the try and again at line 77 inside the handler, where
\* nothing catches it.
LiveFallbackRaises ==
  /\ pc = "live"
  /\ LiveUnavailable
  /\ btc_df.rows = << >>
  /\ ret' = Raised
  /\ pc' = "returned"
  /\ fred_raw' = fred_raw
  /\ fred_data' = EmptyFrame
  /\ btc_df' = EmptyFrame
  /\ UNCHANGED <<errors, current_price, df, view>>

\* Lines 80-86.  The join raises only for indexes of different timezone
\* awareness.
MergeData ==
  /\ pc = "merge"
  /\ IF fred_data.tz # btc_df.tz
       THEN /\ requests' = requests
            /\ FailWith("merge")
       ELSE /\ df' = Frame("naive", JoinCols,
                           Merge(fred_data.rows, btc_df.rows))
            /\ pc' = "merged"
            /\ UNCHANGED <<requests, errors, fred_raw, fred_data, btc_df,
                           current_price, ret, view>>

\* return df, current_price (line 88).
ReturnPair ==
  /\ pc = "merged"
  /\ ret' = Returned(FALSE, df, FALSE, current_price)
  /\ pc' = "returned"
  /\ fred_raw' = fred_raw
  /\ fred_data' = EmptyFrame
  /\ btc_df' = EmptyFrame
  /\ current_price' = NaN
  /\ df' = EmptyFrame
  /\ UNCHANGED <<requests, errors, view>>

\* df['BTC_Price'].iloc[-2] (line 129), for a table of two rows or more.
PrevClose(rows) == rows[Len(rows) - 1].BTC_Price

\* Lines 122-146.
Render ==
  /\ pc = "returned"
  /\ view' =
       IF ret.kind = "raised"
         THEN [kind |-> "exception", table |-> << >>, delta |-> NaN]
       ELSE IF ret.df_none \/ ret.df.rows = << >>
         THEN [kind |-> "blank", table |-> << >>, delta |-> NaN]
       ELSE LET table == calculate_signal(ret.df.rows)
            IN IF Len(table) < 2
                 THEN [kind |-> "exception", table |-> table, delta |-> NaN]
                 ELSE [kind |-> "metrics", table |-> table,
                       delta |-> FSub(ret.price, PrevClose(table))]
  /\ pc' = "done"
  /\ UNCHANGED <<requests, errors, fred_raw, fred_data, btc_df,
                 current_price, df, ret>>

\* The next cycle (the cache expiring, or Force Refresh, lines 117-119).
Refresh ==
  /\ pc = "done"
  /\ pc' = "start"
  /\ requests' = << >>
  /\ errors' = << >>
  /\ ret' = NoReturn
  /\ view' = NoView
  /\ UNCHANGED <<fred_raw, fred_data, btc_df, current_price, df>>

Next ==
  \/ FetchLiquidity
  \/ FetchLiquidityFails
  \/ FetchPrice
  \/ FetchPriceFails
  \/ FetchLive
  \/ LiveFallback
  \/ LiveFallbackRaises
  \/ MergeData
  \/ ReturnPair
  \/ Render
  \/ Refresh

Spec == Init /\ [][Next]_vars

\* ------------------------------------------- calculate_signal on its own
\* Aligned tables of 1..MaxRows rows: both columns flat except for their
\* last two rows, which take any values around the flat one.
Flat == F(2)
Tails == [1..2 -> {F(1), F(2), F(3)}]

TableOf(n, lt, pt) ==
  [i \in 1..n |->
     [d |-> i,
      Net_Liquidity |-> IF i > n - 2 THEN lt[i - (n - 2)] ELSE Flat,
      BTC_Price |-> IF i > n - 2 THEN pt[i - (n - 2)] ELSE Flat]]

SignalInit ==
  /\ pc = "signal_in"
  /\ requests = << >>
  /\ errors = << >>
  /\ fred_raw = EmptyFrame
  /\ fred_data = EmptyFrame
  /\ btc_df = EmptyFrame
  /\ current_price = NaN
  /\ \E n \in 1..MaxRows, lt \in Tails, pt \in Tails :
       df = Frame("naive", JoinCols, TableOf(n, lt, pt))
  /\ ret = NoReturn
  /\ view = NoView

\* df = calculate_signal(df) (line 125).
ComputeSignal ==
  /\ pc = "signal_in"
  /\ df' = [df EXCEPT !.rows = calculate_signal(df.rows),
                      !.cols = JoinCols \cup {"Liq_SMA_20", "BTC_SMA_20",
                                              "Correlation", "Signal"}]
  /\ pc' = "signal_out"
  /\ UNCHANGED <<requests, errors, fred_raw, fred_data, btc_df,
                 current_price, ret, view>>

SignalNext == ComputeSignal

SignalSpec == SignalInit /\ [][SignalNext]_vars

\* ------------------------------------ the liquidity derivation on its own
LiquidityInit ==
  /\ pc = "fred_in"
  /\ requests = << >>
  /\ errors = << >>
  /\ \E tz \in Tz, D \in SUBSET Dates :
       \E f \in [D -> FredCells] : fred_raw = FredResponse(tz, D, f)
  /\ fred_data = fred_raw
  /\ btc_df = EmptyFrame
  /\ current_price = NaN
  /\ df = EmptyFrame
  /\ ret = NoReturn
  /\ view = NoView

\* Lines 33-38: fred_data rebound to the derived frame.
Derive ==
  /\ pc = "fred_in"
  /\ fred_data' = DeriveLiquidity(fred_data)
  /\ pc' = "fred_out"
  /\ UNCHANGED <<requests, errors, fred_raw, btc_df, current_price, df,
                 ret, view>>

LiquidityNext == Derive

LiquiditySpec == LiquidityInit /\ [][LiquidityNext]_vars

\* ================================================================ claims

\* The days of a frame on or before which column c has been observed.
ObservedBy(rows, c, day) ==
  {j \in 1..Len(rows) : rows[j].d <= day /\ ~IsNaN(rows[j][c])}

\* C9: the liquidity fetch forward-fills each of the three components with
\* its most recent prior observation and then drops the rows that still lack
\* a component: the retained days are exactly the days of the response by
\* which all three components have been observed, in ascending order; every
\* retained row has all three components defined, each equal to the latest
\* observation of that component on or before the row's day; and its
\* Net_Liquidity times 1000 is WALCL - WTREGEN - RRPONTSYD of the row.
C9_ForwardFilledLiquidity ==
  pc = "fred_out" =>
    LET raw == fred_raw.rows
        out == fred_data.rows
    IN /\ Index(out) =
            {day \in Index(raw) :
               \A c \in FredCols : ObservedBy(raw, c, day) # {}}
       /\ \A k \in 1..Len(out) :
            /\ k > 1 => out[k - 1].d < out[k].d
            /\ \A c \in FredCols :
                 /\ ~IsNaN(out[k][c])
                 /\ \E j \in ObservedBy(raw, c, out[k].d) :
                      /\ out[k][c] = raw[j][c]
                      /\ \A m \in ObservedBy(raw, c, out[k].d) :
                           raw[m].d <= raw[j].d
            /\ ~IsNaN(out[k].Net_Liquidity)
            /\ Scale * Num(out[k].Net_Liquidity) =
                 Num(out[k].WALCL) - Num(out[k].WTREGEN)
                   - Num(out[k].RRPONTSYD)

\* C9 witness: a derived frame with a retained row that took a component
\* from an earlier day, and a leading day of the response that was dropped.
C9_Witness ==
  /\ pc = "fred_out"
  /\ \E k \in 1..Len(fred_data.rows) :
       /\ IsNaN(CellAt(fred_raw.rows, fred_data.rows[k].d, "WALCL"))
       /\ fred_data.rows[k].WALCL = F(6000)
  /\ \E j \in 1..Len(fred_raw.rows) :
       fred_raw.rows[j].d \notin Index(fred_data.rows)
  /\ Len(fred_data.rows) >= 2

\* The classification table of calculate_signal: one line per combination
\* of liq_up and price_up.
ClassificationTable ==
  {[liq_up |-> TRUE, price_up |-> TRUE, state |-> "STRONG_LONG"],
   [liq_up |-> FALSE, price_up |-> TRUE, state |-> "DIVERGENCE_RISK"],
   [liq_up |-> TRUE, price_up |-> FALSE, state |-> "BUY_OPPORTUNITY"],
   [liq_up |-> FALSE, price_up |-> FALSE, state |-> "NEUTRAL"]}

\* The correlation-gated table: a line with high_corr "any" applies
\* whatever the correlation is.
GatedTable ==
  {[liq_up |-> TRUE, price_up |-> TRUE, high_corr |-> "yes",
    state |-> "STRONG_LONG"],
   [liq_up |-> FALSE, price_up |-> TRUE, high_corr |-> "any",
    state |-> "DIVERGENCE_RISK"],
   [liq_up |-> TRUE, price_up |-> FALSE, high_corr |-> "any",
    state |-> "BUY_OPPORTUNITY"],
   [liq_up |-> FALSE, price_up |-> FALSE, high_corr |-> "any",
    state |-> "NEUTRAL"],
   [liq_up |-> TRUE, price_up |-> TRUE, high_corr |-> "no",
    state |-> "NEUTRAL"]}

SignalStates == {"STRONG_LONG", "DIVERGENCE_RISK", "BUY_OPPORTUNITY", "NEUTRAL"}

SmaDefined(r) == ~IsNaN(r.Liq_SMA_20) /\ ~IsNaN(r.BTC_SMA_20)

\* value > mean, strictly, for a defined mean <<sum, count>>.
StrictlyAbove(v, m) == Num(v) * m[2] > m[1]

\* rolling_correlation > 0.5 for a correlation cell <<cov, vx, vy>>.
HighCorr(c) ==
  /\ ~IsNaN(c)
  /\ c[1] > 0
  /\ 4 * c[1] * c[1] > c[2] * c[3]

\* C1: every row whose moving averages are defined carries exactly one of
\* the four states, the one the classification table gives for liq_up and
\* price_up taken with strict comparison (a value equal to its moving
\* average is not up); exactly one line of the table applies to the row, and
\* exactly one line of the correlation-gated table applies to it as well.
C1_Classification ==
  pc = "signal_out" =>
    \A i \in 1..Len(df.rows) :
      LET r == df.rows[i]
      IN SmaDefined(r) =>
           LET liq_up == StrictlyAbove(r.Net_Liquidity, r.Liq_SMA_20)
               price_up == StrictlyAbove(r.BTC_Price, r.BTC_SMA_20)
               high_corr == IF HighCorr(r.Correlation) THEN "yes" ELSE "no"
               lines == {t \in ClassificationTable :
                           t.liq_up = liq_up /\ t.price_up = price_up}
               gated == {t \in GatedTable :
                           /\ t.liq_up = liq_up
                           /\ t.price_up = price_up
                           /\ t.high_corr \in {"any", high_corr}}
           IN /\ r.Signal \in SignalStates
              /\ Cardinality(lines) = 1
              /\ \A t \in lines : t.state = r.Signal
              /\ Cardinality(gated) = 1

\* C1 witness: a computed table with a row whose liquidity and price both
\* equal their moving averages (NEUTRAL) and a STRONG_LONG row whose rolling
\* correlation is defined and not above 0.5.
C1_Witness ==
  /\ pc = "signal_out"
  /\ \E i \in 1..Len(df.rows) :
       /\ SmaDefined(df.rows[i])
       /\ Num(df.rows[i].Net_Liquidity) * Window = df.rows[i].Liq_SMA_20[1]
       /\ Num(df.rows[i].BTC_Price) * Window = df.rows[i].BTC_SMA_20[1]
       /\ df.rows[i].Signal = "NEUTRAL"
  /\ \E i \in 1..Len(df.rows) :
       /\ SmaDefined(df.rows[i])
       /\ df.rows[i].Signal = "STRONG_LONG"
       /\ ~IsNaN(df.rows[i].Correlation)
       /\ ~HighCorr(df.rows[i].Correlation)

HasReq(source, results) ==
  \E i \in 1..Len(requests) :
    requests[i].source = source /\ requests[i].result \in results

CycleOver == pc \in {"returned", "done"}

NoNaNSorted(rows) ==
  \A i \in 1..Len(rows) :
    /\ ~IsNaN(rows[i].Net_Liquidity)
    /\ ~IsNaN(rows[i].BTC_Price)
    /\ i > 1 => rows[i - 1].d < rows[i].d

\* C4: every aligned table get_market_data builds and returns has no
\* missing value in Net_Liquidity or BTC_Price and is in strictly ascending
\* order of its index.
C4_NoMissingSorted ==
  /\ pc = "merged" => NoNaNSorted(df.rows)
  /\ (ret.kind = "returned" /\ ~ret.df_none) => NoNaNSorted(ret.df.rows)

\* C4 witness: a merged table of two rows or more that lost a leading day of
\* the join and holds a day the liquidity series has no row for.
C4_Witness ==
  /\ pc = "merged"
  /\ Len(df.rows) >= 2
  /\ Index(df.rows) # Index(fred_data.rows) \cup Index(btc_df.rows)
  /\ Index(df.rows) \ Index(fred_data.rows) # {}
  /\ \E i \in 1..Len(btc_df.rows) :
       /\ IsNaN(btc_df.rows[i].BTC_Price)
       /\ btc_df.rows[i].d \in Index(df.rows)

\* The rows of the daily price series that hold a price.
Priced(rows) == {i \in 1..Len(rows) : ~IsNaN(rows[i].BTC_Price)}

\* C3: when the liquidity series is not empty, the price series holds a
\* price and its index reaches a later day than the liquidity series, the
\* merged table ends on the last day of the price series, with the latest
\* price observed and the last liquidity value carried forward, and it has
\* exactly one row per day of the union of both indexes from the first day
\* by which both a liquidity value and a price have been observed.
C3_OuterForwardFill ==
  (/\ pc = "merged"
   /\ fred_data.rows # << >>
   /\ Priced(btc_df.rows) # {}
   /\ btc_df.rows[Len(btc_df.rows)].d > fred_data.rows[Len(fred_data.rows)].d)
  =>
    LET liq == fred_data.rows
        btc == btc_df.rows
        lastPriced == CHOOSE i \in Priced(btc) : \A j \in Priced(btc) : j <= i
        firstPriced == CHOOSE i \in Priced(btc) : \A j \in Priced(btc) : i <= j
        start == IF liq[1].d > btc[firstPriced].d
                   THEN liq[1].d ELSE btc[firstPriced].d
        days == {day \in Index(liq) \cup Index(btc) : day >= start}
    IN /\ df.rows # << >>
       /\ df.rows[Len(df.rows)].d = btc[Len(btc)].d
       /\ df.rows[Len(df.rows)].BTC_Price = btc[lastPriced].BTC_Price
       /\ df.rows[Len(df.rows)].Net_Liquidity = liq[Len(liq)].Net_Liquidity
       /\ Index(df.rows) = days
       /\ Len(df.rows) = Cardinality(days)

\* C3 witness: liquidity published through day MaxDate - 2 only, prices
\* through day MaxDate, both from day 1: the merged table has MaxDate rows.
C3_Witness ==
  /\ pc = "merged"
  /\ fred_data.rows # << >>
  /\ btc_df.rows # << >>
  /\ fred_data.rows[1].d = 1
  /\ fred_data.rows[Len(fred_data.rows)].d = MaxDate - 2
  /\ Index(btc_df.rows) = Dates
  /\ Priced(btc_df.rows) = 1..MaxDate
  /\ Len(df.rows) = MaxDate
  /\ df.rows[MaxDate].BTC_Price # df.rows[MaxDate - 1].BTC_Price

Sources(reqs) == [i \in 1..Len(reqs) |-> reqs[i].source]
StepOrder == <<"fred", "daily", "live">>

\* C10: the requests of a cycle are issued in the order liquidity, daily
\* price, live quote, and the merge starts only after all three; a failure
\* of the liquidity fetch, the daily price fetch or the merge ends the
\* cycle at once with (None, None), so that a liquidity failure leaves the
\* price and live requests unissued and a price failure the live request;
\* at most one error is shown per cycle; and a returned pair is (None, None)
\* or a table together with a price, never one without the other.
C10_StepOrder ==
  /\ Len(requests) <= Len(StepOrder)
  /\ Sources(requests) = SubSeq(StepOrder, 1, Len(requests))
  /\ pc \in {"merge", "merged"} => Len(requests) = Len(StepOrder)
  /\ Len(errors) <= 1
  /\ errors # << >> =>
       /\ CycleOver
       /\ ret = NoneNone
       /\ errors[1] = "fred" => Sources(requests) = <<"fred">>
       /\ errors[1] = "btc" => Sources(requests) = <<"fred", "daily">>
       /\ errors[1] = "merge" => Sources(requests) = StepOrder
  /\ ret.kind = "returned" => ret.df_none = ret.price_none
  /\ (ret.kind = "returned" /\ ret.df_none) => Len(errors) = 1

\* C10 witness: a cycle ended by a daily price failure after the liquidity
\* fetch succeeded.
C10_Witness ==
  /\ pc = "done"
  /\ errors = <<"btc">>
  /\ requests = <<Req("fred", "rows"), Req("daily", "raised")>>
  /\ ret = NoneNone

\* C2 as claimed: when one of the liquidity and daily price requests raised
\* or came back empty, the cycle ends with (None, None) and one error naming
\* that source, and no exception leaves get_market_data.
C2_FailureAttributed ==
  CycleOver =>
    \A s \in {<<"fred", "daily", "fred">>, <<"daily", "fred", "btc">>} :
      (HasReq(s[1], {"raised", "empty"}) /\ ~HasReq(s[2], {"raised", "empty"}))
      =>
        /\ ret = NoneNone
        /\ errors = <<s[3]>>

\* C5 as claimed: a table of zero rows is never returned or rendered
\* without a condition being reported to the caller.
C5_NoSilentEmptyTable ==
  (pc = "done" /\ ret.kind = "returned" /\ ~ret.df_none
     /\ ret.df.rows = << >>)
  => (errors # << >> /\ view.kind # "blank")

\* C6 as claimed: when the live request raised or came back empty, the
\* current price is the last daily close and the cycle returns the table.
C6_LiveFallback ==
  HasReq("live", {"raised", "empty"}) =>
    /\ ret.kind # "raised"
    /\ pc = "merge" => current_price = LastDaily(btc_df)
    /\ CycleOver => (ret.kind = "returned" /\ ~ret.df_none)

\* C7 as claimed: for a rendered table the delta is the live price minus
\* the second-to-last price; with fewer than two rows it is left undefined
\* and the render does not raise.
C7_Delta ==
  (pc = "done" /\ ret.kind = "returned" /\ ~ret.df_none
     /\ ret.df.rows # << >>)
  =>
    /\ view.kind = "metrics"
    /\ Len(ret.df.rows) >= 2 =>
         view.delta =
           FSub(ret.price, ret.df.rows[Len(ret.df.rows) - 1].BTC_Price)
    /\ Len(ret.df.rows) < 2 => IsNaN(view.delta)

====
